---- MODULE Spec2Model ----
(***************************************************************************)
(* Model of poldercast's node registry (src/nodes.rs), the Vicinity layer  *)
(* (src/poldercast/vicinity.rs) and the view builder (src/view.rs).        *)
(*                                                                         *)
(* The registry `Nodes` is an LruCache<Id, Node> plus three HashSet<Id>.   *)
(* The cache is modelled as the sequence of its entries in the order       *)
(* LruCache iterates them: most recently used first, least recently used   *)
(* last.  A Node is modelled by its Id and by whether its address is       *)
(* Some; its profile is a function of the Id (Proximity); its log is       *)
(* written but never read by this code: the events a call appends are kept *)
(* in the handler's result (field logged) and shown by the observer.       *)
(***************************************************************************)
EXTENDS Integers, Sequences, FiniteSets, TLC

\* Bounds of the model.
NumIds == 3
MaxCap == 2
MaxProx == 1
MaxSel == 2
Crowd == 25
MaxInfo == 2

\* vicinity.rs, lines 5-6
VICINITY_MAX_VIEW_SIZE == 20
VICINITY_MAX_GOSSIP_LENGTH == 10

Ids == 1..NumIds
Caps == 0..MaxCap

\* The Ids of a crowded registry: Crowd peers and one more
Peers == 1..(Crowd + 1)

\* enum Selection: Any, or Topic { topic } for the one topic of the model
Selections == {"Any", "Topic"}

\* enum PolicyReport
PolicyReports == {"None", "Forget", "Quarantine", "LiftQuarantine"}

\* What the FnOnce(&mut Node) given to modify can do to the part of the Node
\* this code reads (was_reachable / now_reachable): leave the address, set
\* it, or clear it.
Mutators == {"keep", "set_address", "clear_address"}

VARIABLES
    cap,            \* LruCache capacity given to with_capacity
    all,            \* Nodes.all: entries [id, address], most recently used first
    quarantined,    \* Nodes.quarantined
    not_reachable,  \* Nodes.not_reachable
    available,      \* Nodes.available
    pc,             \* "idle"; "insert_loop" while insert's while loop spins;
                    \* "panicked" after the assert! of VacantEntry::insert failed
    view,           \* Vicinity.view: the Ids the last populate selected
    builder,        \* the ViewBuilder of the request being served, if any
    sel,            \* the inputs and the result of one selection (SpecSelect)
    recent,         \* history: the tracked Ids, the last promoted one first
    last            \* observer: the last call, what it logged and returned

vars == <<cap, all, quarantined, not_reachable, available, pc, view, builder,
          sel, recent, last>>

-----------------------------------------------------------------------------
\* LruCache, as used by nodes.rs

Keys(c) == {c[i].id : i \in DOMAIN c}

contains(c, k) == k \in Keys(c)

IndexOf(c, k) == CHOOSE i \in DOMAIN c : c[i].id = k

Without(c, i) == SubSeq(c, 1, i - 1) \o SubSeq(c, i + 1, Len(c))

\* LruCache::peek / peek_mut: the entry, order untouched
lru_peek(c, k) == c[IndexOf(c, k)]

\* LruCache::get / get_mut: the entry becomes the most recently used
lru_get(c, k) == <<c[IndexOf(c, k)]>> \o Without(c, IndexOf(c, k))

\* LruCache::pop
lru_pop(c, k) == IF contains(c, k) THEN Without(c, IndexOf(c, k)) ELSE c

\* A pop_lru that takes the most recently used entry instead
pop_mru_key(c) == c[1].id

\* LruCache::pop_lru on a non-empty cache: the key it returns, and the
\* cache it leaves (the last entry dropped)
pop_lru_key(c) == c[Len(c)].id

pop_lru(c) == Without(c, IndexOf(c, pop_lru_key(c)))

\* LruCache::put: insert (or replace) as the most recently used
lru_put(c, node) == <<node>> \o lru_pop(c, node.id)

\* Replace the stored Node of k in place (a write through a &mut Node)
Store(c, k, node) == [i \in DOMAIN c |-> IF c[i].id = k THEN node ELSE c[i]]

-----------------------------------------------------------------------------
\* The struct Nodes as a record, and the handlers as functions on it

Self == [all |-> all, quarantined |-> quarantined,
         not_reachable |-> not_reachable, available |-> available,
         logged |-> <<>>]

mutate(node, f) ==
    CASE f = "keep" -> node
      [] f = "set_address" -> [node EXCEPT !.address = TRUE]
      [] f = "clear_address" -> [node EXCEPT !.address = FALSE]

\* An insert that takes every Node for a reachable one
insert_as_available(n, node) ==
    [n EXCEPT !.available = @ \cup {node.id}]

\* Nodes::insert, lines 134-139
insert_by_address(n, node) ==
    IF node.address
    THEN [n EXCEPT !.available = @ \cup {node.id}]
    ELSE [n EXCEPT !.not_reachable = @ \cup {node.id}]

\* Nodes::insert, the body of the while loop for a popped key k
strip(n, k) ==
    [n EXCEPT !.available = @ \ {k},
              !.quarantined = @ \ {k},
              !.not_reachable = @ \ {k}]

\* Nodes::insert, lines 146-152: the loop runs while len >= cap; with an
\* empty cache pop_lru gives None and the loop makes no progress (see
\* insert_spins), so the recursion stops there.
RECURSIVE evict(_, _)
evict(n, c) ==
    IF Len(n.all) >= c /\ Len(n.all) > 0
    THEN evict(strip([n EXCEPT !.all = pop_lru(@)], pop_lru_key(n.all)), c)
    ELSE n

\* The while loop never exits: len >= cap still holds on the empty cache
insert_spins(n, c) == Len(evict(n, c).all) >= c

\* Nodes::insert
insert(n, node, c) ==
    [evict(insert_by_address(n, node), c) EXCEPT !.all = lru_put(@, node)]

\* A None arm that follows the address without asking where the Id is
modify_none_unguarded(n, id, node, was) ==
    IF was /\ ~node.address
    THEN [n EXCEPT !.available = @ \ {id},
                   !.not_reachable = @ \cup {id}]
    ELSE IF ~was /\ node.address
         THEN [n EXCEPT !.not_reachable = @ \ {id},
                        !.available = @ \cup {id}]
         ELSE n

\* OccupiedEntry::modify, PolicyReport::None (lines 237-249); was is the
\* address presence before the mutator ran, node the Node after it
modify_none(n, id, node, was) ==
    IF was /\ ~node.address
    THEN IF id \in n.available
         THEN [n EXCEPT !.available = @ \ {id},
                        !.not_reachable = @ \cup {id}]
         ELSE n
    ELSE IF ~was /\ node.address /\ id \in n.not_reachable
         THEN [n EXCEPT !.not_reachable = @ \ {id},
                        !.available = @ \cup {id}]
         ELSE n

\* OccupiedEntry::modify, PolicyReport::Forget (lines 250-255)
modify_forget(n, id) ==
    [n EXCEPT !.available = @ \ {id},
              !.not_reachable = @ \ {id},
              !.quarantined = @ \ {id},
              !.all = lru_pop(@, id)]

\* A Quarantine arm that forgets to take the Id out of available
modify_quarantine_keeps_available(n, id) ==
    [n EXCEPT !.not_reachable = @ \ {id},
              !.quarantined = @ \cup {id},
              !.logged = Append(@, <<id, "quarantine">>)]

\* OccupiedEntry::modify, PolicyReport::Quarantine (lines 256-261)
modify_quarantine(n, id) ==
    [n EXCEPT !.available = @ \ {id},
              !.not_reachable = @ \ {id},
              !.quarantined = @ \cup {id},
              !.logged = Append(@, <<id, "quarantine">>)]

\* OccupiedEntry::modify, PolicyReport::LiftQuarantine (lines 262-270)
modify_lift_quarantine(n, id, node) ==
    [n EXCEPT !.available = IF node.address THEN @ \cup {id} ELSE @,
              !.not_reachable = IF node.address THEN @ ELSE @ \cup {id},
              !.quarantined = @ \ {id},
              !.logged = Append(@, <<id, "lift_quarantine">>)]

\* OccupiedEntry::modify on a tracked id: get_mut, mutator, policy, match
modify(n, id, f, report) ==
    LET promoted == lru_get(n.all, id)
        was == promoted[1].address
        node == mutate(promoted[1], f)
        m == [n EXCEPT !.all = Store(promoted, id, node)]
    IN CASE report = "None" -> modify_none(m, id, node, was)
         [] report = "Forget" -> modify_forget(m, id)
         [] report = "Quarantine" -> modify_quarantine(m, id)
         [] report = "LiftQuarantine" -> modify_lift_quarantine(m, id, node)

\* A None arm that moves the Id to the set its address asks for
reset_none_migrates(n, k, node) ==
    IF node.address /\ k \in n.not_reachable
    THEN [n EXCEPT !.not_reachable = @ \ {k}, !.available = @ \cup {k}]
    ELSE IF ~node.address /\ k \in n.available
         THEN [n EXCEPT !.available = @ \ {k}, !.not_reachable = @ \cup {k}]
         ELSE n

\* Nodes::reset, PolicyReport::None (line 170)
reset_none(n, k, node) == n

\* Nodes::reset, PolicyReport::Forget (lines 171-177); the key goes to
\* to_remove
reset_forget(n, k) ==
    [n EXCEPT !.available = @ \ {k},
              !.not_reachable = @ \ {k},
              !.quarantined = @ \ {k}]

\* A Quarantine arm that leaves the Id in not_reachable
reset_quarantine_keeps_not_reachable(n, k) ==
    [n EXCEPT !.available = @ \ {k},
              !.quarantined = @ \cup {k},
              !.logged = Append(@, <<k, "quarantine">>)]

\* Nodes::reset, PolicyReport::Quarantine (lines 178-183)
reset_quarantine(n, k) ==
    [n EXCEPT !.available = @ \ {k},
              !.not_reachable = @ \ {k},
              !.quarantined = @ \cup {k},
              !.logged = Append(@, <<k, "quarantine">>)]

\* A LiftQuarantine arm that takes every Node for a reachable one
reset_lift_quarantine_to_available(n, k, node) ==
    [n EXCEPT !.available = @ \cup {k},
              !.quarantined = @ \ {k},
              !.logged = Append(@, <<k, "lift_quarantine">>)]

\* Nodes::reset, PolicyReport::LiftQuarantine (lines 184-192)
reset_lift_quarantine(n, k, node) ==
    [n EXCEPT !.available = IF node.address THEN @ \cup {k} ELSE @,
              !.not_reachable = IF node.address THEN @ ELSE @ \cup {k},
              !.quarantined = @ \ {k},
              !.logged = Append(@, <<k, "lift_quarantine">>)]

\* Nodes::reset, the match of lines 169-193 on one entry
on_report_reset(n, k, node, report) ==
    CASE report = "None" -> reset_none(n, k, node)
      [] report = "Forget" -> reset_forget(n, k)
      [] report = "Quarantine" -> reset_quarantine(n, k)
      [] report = "LiftQuarantine" -> reset_lift_quarantine(n, k, node)

\* Nodes::reset, the for loop over all.iter_mut() (most recently used first)
RECURSIVE reset_scan(_, _, _)
reset_scan(n, policy, i) ==
    IF i > Len(n.all)
    THEN n
    ELSE reset_scan(on_report_reset(n, n.all[i].id, n.all[i], policy[n.all[i].id]),
                    policy, i + 1)

\* Nodes::reset, the Ids policy.check is called on, in the order of the loop
policy_checks(n) == [i \in 1..Len(n.all) |-> n.all[i].id]

\* A to_remove that also takes the keys of the quarantined Nodes
to_remove_quarantined(c, policy) ==
    SelectSeq(c, LAMBDA e : policy[e.id] \in {"Forget", "Quarantine"})

\* Nodes::reset, to_remove in the order the scan pushed it
to_remove(c, policy) == SelectSeq(c, LAMBDA e : policy[e.id] = "Forget")

RECURSIVE pop_each(_, _)
pop_each(c, ks) ==
    IF ks = <<>> THEN c ELSE pop_each(lru_pop(c, Head(ks).id), Tail(ks))

\* Nodes::reset
reset(n, policy) ==
    [reset_scan(n, policy, 1) EXCEPT !.all = pop_each(@, to_remove(n.all, policy))]

\* Nodes::node_count, as <<all, quarantined, not_reachable, available>>
node_count(n) ==
    <<Len(n.all), Cardinality(n.quarantined),
      Cardinality(n.not_reachable), Cardinality(n.available)>>

-----------------------------------------------------------------------------
\* Calls

\* An entry that never finds the Id
entry_always_vacant(c, id) == "Vacant"

\* Nodes::entry: the discriminant
entry(c, id) == IF contains(c, id) THEN "Occupied" ELSE "Vacant"

\* VacantEntry::insert: the registry it leaves
vacant_insert(n, node, c) ==
    IF insert_spins(insert_by_address(n, node), c)
    THEN evict(insert_by_address(n, node), c)
    ELSE insert(n, node, c)

\* VacantEntry::insert: how it ends.  Nodes::insert returns what put
\* returns, the Node stored under the key before; the assert! wants None.
vacant_insert_pc(n, node, c) ==
    IF insert_spins(insert_by_address(n, node), c) THEN "insert_loop"
    ELSE IF contains(evict(insert_by_address(n, node), c).all, node.id)
         THEN "panicked"
         ELSE "idle"

\* Entry::or_insert and Entry::or_insert_with: the match on the entry.  The
\* default Node carries the entry's key (debug_assert_eq, line 208).
or_insert_result(id, address) ==
    IF entry(all, id) = "Vacant"
    THEN vacant_insert(Self, [id |-> id, address |-> address], cap)
    ELSE Self

or_insert_pc(id, address) ==
    IF entry(all, id) = "Vacant"
    THEN vacant_insert_pc(Self, [id |-> id, address |-> address], cap)
    ELSE "idle"

\* Entry::and_modify: the match on the entry
and_modify_result(id, f, report) ==
    IF entry(all, id) = "Occupied" THEN modify(Self, id, f, report) ELSE Self

Commit(n) ==
    /\ all' = n.all
    /\ quarantined' = n.quarantined
    /\ not_reachable' = n.not_reachable
    /\ available' = n.available

\* Entry::or_insert
or_insert(id, address) ==
    /\ pc = "idle"
    /\ Commit(or_insert_result(id, address))
    /\ pc' = or_insert_pc(id, address)
    /\ UNCHANGED <<cap, view, builder, sel>>

\* Entry::or_insert_with
or_insert_with(id, address) ==
    /\ pc = "idle"
    /\ Commit(or_insert_result(id, address))
    /\ pc' = or_insert_pc(id, address)
    /\ UNCHANGED <<cap, view, builder, sel>>

\* the while loop of Nodes::insert going round without progress
insert_loop ==
    /\ pc = "insert_loop"
    /\ Len(all) >= cap
    /\ UNCHANGED <<cap, all, quarantined, not_reachable, available, pc, view,
                   builder, sel>>

\* Entry::and_modify
and_modify(id, f, report) ==
    /\ pc = "idle"
    /\ Commit(and_modify_result(id, f, report))
    /\ UNCHANGED <<cap, pc, view, builder, sel>>

\* Nodes::reset with a policy reporting policy[k] for the Node of k
reset_nodes(policy) ==
    /\ pc = "idle"
    /\ Commit(reset(Self, policy))
    /\ UNCHANGED <<cap, pc, view, builder, sel>>

\* Nodes::peek
peek(id) ==
    /\ pc = "idle"
    /\ Commit(Self)
    /\ UNCHANGED <<cap, pc, view, builder, sel>>

\* Nodes::peek_mut
peek_mut(id) ==
    /\ pc = "idle"
    /\ Commit(Self)
    /\ UNCHANGED <<cap, pc, view, builder, sel>>

\* What Nodes::get and Nodes::get_mut leave of the registry
get_result(n, id) ==
    IF contains(n.all, id) THEN [n EXCEPT !.all = lru_get(@, id)] ELSE n

\* Nodes::get
get(id) ==
    /\ pc = "idle"
    /\ Commit(get_result(Self, id))
    /\ UNCHANGED <<cap, pc, view, builder, sel>>

\* Nodes::get_mut
get_mut(id) ==
    /\ pc = "idle"
    /\ Commit(get_result(Self, id))
    /\ UNCHANGED <<cap, pc, view, builder, sel>>

\* Nodes::node_count
count_nodes ==
    /\ pc = "idle"
    /\ Commit(Self)
    /\ UNCHANGED <<cap, pc, view, builder, sel>>

-----------------------------------------------------------------------------
\* Vicinity (vicinity.rs) and ViewBuilder (view.rs).  A NodeInfo is known by
\* the Id of its Node; a list of Nodes by the list of their Ids.

Min(a, b) == IF a < b THEN a ELSE b

\* NodeProfile::proximity of the profile of id, seen from the profile of to:
\* lower is closer, and two Ids can be equally close
Proximity(to, id) == IF to > id THEN to - id ELSE id - to

ProximityTo(to) == [id \in Ids \cup Peers |-> Proximity(to, id)]

\* collect: a list of the elements of S, in the order the iteration gives
RECURSIVE SetToSeq(_)
SetToSeq(S) ==
    IF S = {} THEN <<>>
    ELSE LET x == CHOOSE y \in S : \A z \in S : y <= z
         IN <<x>> \o SetToSeq(S \ {x})

\* slice::shuffle: every arrangement of the list
shuffle(s) == {[i \in 1..Len(s) |-> s[p[i]]] : p \in Permutations(1..Len(s))}

sorted(s, prox) == \A i, j \in 1..Len(s) : i < j => prox[s[i]] <= prox[s[j]]

\* par_sort_unstable_by with a skipped sort: the list as the shuffle left it
keep_shuffled(s, prox) == {s}

\* par_sort_unstable_by on the proximity to the target: the list in ascending
\* proximity, equal elements in any order
par_sort_unstable_by(s, prox) == {t \in shuffle(s) : sorted(t, prox)}

take(s, max) == SubSeq(s, 1, Min(max, Len(s)))

\* Vicinity::select_closest_nodes: the lists it can return
select_closest_nodes(prox, profiles, max) ==
    UNION {{take(t, max) : t \in par_sort_unstable_by(s, prox)} :
           s \in shuffle(profiles)}

\* The lists select_closest_nodes can return, built front to back without
\* going through the arrangements of the shuffle: next comes any of the
\* profiles left (positions left of s) that none of them is closer than,
\* until k are taken
RECURSIVE closest_lists(_, _, _, _)
closest_lists(prox, s, left, k) ==
    IF k = 0 \/ left = {} THEN {<<>>}
    ELSE UNION {{<<s[i]>> \o t : t \in closest_lists(prox, s, left \ {i}, k - 1)} :
                i \in {j \in left : \A m \in left : prox[s[j]] <= prox[s[m]]}}

\* Vicinity::select_closest_nodes as populate and gossips call it: worked
\* out through the shuffle for up to NumIds profiles, front to back for more
closest(prox, profiles, max) ==
    IF Len(profiles) <= NumIds
    THEN select_closest_nodes(prox, profiles, max)
    ELSE closest_lists(prox, profiles, 1..Len(profiles), max)

\* candidates that are every tracked Id other than exclude
candidates_tracked(n, exclude) ==
    SetToSeq({id \in Keys(n.all) : id # exclude})

\* the candidates of populate and gossips: the available Ids other than
\* exclude that the cache resolves
candidates(n, exclude) ==
    SetToSeq({id \in n.available : id # exclude /\ contains(n.all, id)})

\* Vicinity::populate: the views it can store
populate_views(n, identity) ==
    closest(ProximityTo(identity), candidates(n, identity),
            VICINITY_MAX_VIEW_SIZE)

\* gossips that does not look the recipient up
gossips_lists_any_recipient(n, recipient) ==
    closest(ProximityTo(recipient), candidates(n, recipient),
            VICINITY_MAX_GOSSIP_LENGTH)

\* Vicinity::gossips: the lists it can push into the gossips builder
gossips_lists(n, recipient) ==
    IF contains(n.all, recipient)
    THEN closest(ProximityTo(recipient), candidates(n, recipient),
                 VICINITY_MAX_GOSSIP_LENGTH)
    ELSE {<<>>}

\* no ViewBuilder is at hand
NoBuilder == [open |-> FALSE, selection |-> "Any", view |-> {}, view_info |-> <<>>]

\* ViewBuilder::new
ViewBuilder_new(selection) ==
    [open |-> TRUE, selection |-> selection, view |-> {}, view_info |-> <<>>]

\* An add that logs the use of the topic for an Id not yet pending only
add_logs_once(vb, id) ==
    IF vb.selection = "Topic" /\ id \notin vb.view
    THEN <<<<id, "use_of">>>> ELSE <<>>

\* ViewBuilder::add: what the Node of id gets logged
add_logs(vb, id) ==
    IF vb.selection = "Topic" THEN <<<<id, "use_of">>>> ELSE <<>>

\* ViewBuilder::add: the builder after it
add(vb, id) == [vb EXCEPT !.view = @ \cup {id}]

\* An add_info that puts the info in front
add_info_front(vb, info) == [vb EXCEPT !.view_info = <<info>> \o @]

\* ViewBuilder::add_info
add_info(vb, info) == [vb EXCEPT !.view_info = Append(@, info)]

\* Vicinity::view: the loop over the stored view v, from its position i; the
\* result holds the builder and the events logged
RECURSIVE view_loop(_, _, _, _)
view_loop(v, i, n, r) ==
    IF i > Len(v) THEN r
    ELSE IF contains(n.all, v[i])
         THEN view_loop(v, i + 1, n,
                        [builder |-> add(r.builder, v[i]),
                         logged |-> r.logged \o add_logs(r.builder, v[i])])
         ELSE view_loop(v, i + 1, n, r)

\* A view that adds every stored Id without resolving it
vicinity_view_unresolved(v, n, vb) ==
    [builder |-> [vb EXCEPT !.view = @ \cup {v[i] : i \in 1..Len(v)}],
     logged |-> <<>>]

\* Vicinity::view
vicinity_view(v, n, vb) == view_loop(v, 1, n, [builder |-> vb, logged |-> <<>>])

\* the lookup of ViewBuilder::build done with peek: the order stays
build_lookup_peek(n, id) == n

\* the lookup of ViewBuilder::build: Nodes::get
build_lookup(n, id) == get_result(n, id)

\* ViewBuilder::build: the filter_map over the Ids in the order the HashSet
\* gives them; the result holds the registry and the infos returned
RECURSIVE build_loop(_, _, _)
build_loop(order, i, r) ==
    IF i > Len(order) THEN r
    ELSE IF contains(r.nodes.all, order[i])
         THEN build_loop(order, i + 1,
                         [nodes |-> build_lookup(r.nodes, order[i]),
                          infos |-> Append(r.infos, order[i])])
         ELSE build_loop(order, i + 1, r)

\* ViewBuilder::build: what it can return and leave of the registry
build(vb, n) ==
    {build_loop(order, 1, [nodes |-> n, infos |-> vb.view_info]) :
       order \in shuffle(SetToSeq(vb.view))}

\* Layer::reset of Vicinity
vicinity_reset ==
    /\ pc = "idle"
    /\ view' = <<>>
    /\ UNCHANGED <<cap, all, quarantined, not_reachable, available, pc, builder,
                   sel>>

\* Layer::populate of Vicinity
populate(identity) ==
    /\ pc = "idle"
    /\ view' \in populate_views(Self, identity)
    /\ UNCHANGED <<cap, all, quarantined, not_reachable, available, pc, builder,
                   sel>>

\* Layer::gossips of Vicinity for a gossips builder of the recipient
gossips(recipient) ==
    /\ pc = "idle"
    /\ UNCHANGED <<cap, all, quarantined, not_reachable, available, pc, view,
                   builder, sel>>

\* Layer::view of Vicinity
layer_view ==
    /\ pc = "idle"
    /\ builder.open
    /\ builder' = vicinity_view(view, Self, builder).builder
    /\ UNCHANGED <<cap, all, quarantined, not_reachable, available, pc, view,
                   sel>>

\* ViewBuilder::new
new_builder(selection) ==
    /\ pc = "idle"
    /\ ~builder.open
    /\ builder' = ViewBuilder_new(selection)
    /\ UNCHANGED <<cap, all, quarantined, not_reachable, available, pc, view,
                   sel>>

\* ViewBuilder::add on the Node of a tracked Id, as a layer calls it
add_node(id) ==
    /\ pc = "idle"
    /\ builder.open
    /\ contains(all, id)
    /\ builder' = add(builder, id)
    /\ UNCHANGED <<cap, all, quarantined, not_reachable, available, pc, view,
                   sel>>

\* ViewBuilder::add_info, for up to MaxInfo infos
push_info(info) ==
    /\ pc = "idle"
    /\ builder.open
    /\ Len(builder.view_info) < MaxInfo
    /\ builder' = add_info(builder, info)
    /\ UNCHANGED <<cap, all, quarantined, not_reachable, available, pc, view,
                   sel>>

\* ViewBuilder::build, which uses the builder up
build_view(r) ==
    /\ pc = "idle"
    /\ builder.open
    /\ r \in build(builder, Self)
    /\ Commit(r.nodes)
    /\ builder' = NoBuilder
    /\ UNCHANGED <<cap, pc, view, sel>>

-----------------------------------------------------------------------------
\* The observer: which call came last, on what, and what it logged and
\* returned.  A specification watches the calls named in its focus, made on
\* the Id it follows (or on no Id: id 0).  For reset, uniform says that every
\* Node got the same report and report is that report ("mixed" when they
\* differ, "-" on an empty cache); removed counts the Ids the call took out of
\* the cache, gone says that the followed Id is one of them; pre is where the
\* followed Id was before an and_modify.

\* The sets id is in, as a string over A (available), N (not_reachable),
\* Q (quarantined); "-" when in none
Membership(id) ==
    IF id \in available /\ id \in not_reachable THEN "AN"
    ELSE IF id \in available THEN "A"
    ELSE IF id \in not_reachable THEN "N"
    ELSE IF id \in quarantined THEN "Q"
    ELSE "-"

Quiet ==
    [op |-> "-", id |-> 0, report |-> "-", uniform |-> TRUE, hit |-> FALSE,
     removed |-> 0, gone |-> FALSE, pre |-> "-", logged |-> <<>>, ret |-> <<>>]

Focus(ops, id) == [ops |-> ops, id |-> id]

Observe(focus, op, id, report, uniform, logs, result) ==
    last' = IF op \in focus.ops /\ id \in {0, focus.id}
            THEN [op |-> op, id |-> id, report |-> report, uniform |-> uniform,
                  hit |-> contains(all, focus.id),
                  removed |-> Cardinality(Keys(all) \ Keys(all')),
                  gone |-> focus.id \in Keys(all) \ Keys(all'),
                  pre |-> IF op = "and_modify" THEN Membership(focus.id)
                          ELSE IF op = "add"
                               THEN IF focus.id \in builder.view
                                    THEN "pending" ELSE "new"
                               ELSE "-",
                  logged |-> SelectSeq(logs, LAMBDA e : e[1] = focus.id),
                  ret |-> result]
            ELSE Quiet

\* The history of promotions: the Ids of ids move to the front, one after
\* the other, and the Ids the call took out of the cache leave
RECURSIVE promote_each(_, _, _)
promote_each(r, ids, i) ==
    IF i > Len(ids) THEN r
    ELSE promote_each(<<ids[i]>> \o SelectSeq(r, LAMBDA k : k # ids[i]), ids, i + 1)

Touch(ids) ==
    recent' = SelectSeq(promote_each(recent, ids, 1), LAMBDA k : k \in Keys(all'))

NoSelection == [to |-> 0, prox |-> <<>>, max |-> 0, out |-> <<>>, done |-> FALSE]

\* Nodes::new and Vicinity::default
Init ==
    /\ cap \in Caps
    /\ all = <<>>
    /\ quarantined = {}
    /\ not_reachable = {}
    /\ available = {}
    /\ pc = "idle"
    /\ view = <<>>
    /\ builder = NoBuilder
    /\ sel = NoSelection
    /\ recent = <<>>
    /\ last = Quiet

RegistryNext(focus) ==
    \/ \E id \in Ids, address \in BOOLEAN :
          or_insert(id, address)
          /\ Observe(focus, "or_insert", id, "-", TRUE, <<>>, <<>>)
          /\ Touch(IF contains(all, id) THEN <<>> ELSE <<id>>)
    \/ \E id \in Ids, address \in BOOLEAN :
          or_insert_with(id, address)
          /\ Observe(focus, "or_insert", id, "-", TRUE, <<>>, <<>>)
          /\ Touch(IF contains(all, id) THEN <<>> ELSE <<id>>)
    \/ insert_loop /\ UNCHANGED <<recent, last>>
    \/ \E id \in Ids, f \in Mutators, report \in PolicyReports :
          and_modify(id, f, report)
          /\ Observe(focus, "and_modify", id, report, TRUE,
                     and_modify_result(id, f, report).logged,
                     IF contains(all, id) THEN <<report>> ELSE <<>>)
          /\ Touch(IF contains(all, id) THEN <<id>> ELSE <<>>)
    \/ \E policy \in [Keys(all) -> PolicyReports] :
          reset_nodes(policy)
          /\ Observe(focus, "reset", 0,
                     IF all = <<>> THEN "-"
                     ELSE IF \A k \in Keys(all) : policy[k] = policy[all[1].id]
                          THEN policy[all[1].id]
                          ELSE "mixed",
                     \A k \in Keys(all) : policy[k] = policy[all[1].id],
                     reset(Self, policy).logged, <<>>)
          /\ Touch(<<>>)
    \/ \E id \in Ids :
          peek(id) /\ Observe(focus, "peek", id, "-", TRUE, <<>>, <<>>)
          /\ Touch(<<>>)
    \/ \E id \in Ids :
          peek_mut(id) /\ Observe(focus, "peek_mut", id, "-", TRUE, <<>>, <<>>)
          /\ Touch(<<>>)
    \/ \E id \in Ids :
          get(id) /\ Observe(focus, "get", id, "-", TRUE, <<>>, <<>>)
          /\ Touch(IF contains(all, id) THEN <<id>> ELSE <<>>)
    \/ \E id \in Ids :
          get_mut(id) /\ Observe(focus, "get_mut", id, "-", TRUE, <<>>, <<>>)
          /\ Touch(IF contains(all, id) THEN <<id>> ELSE <<>>)
    \/ count_nodes
          /\ Observe(focus, "node_count", 0, "-", TRUE, <<>>, node_count(Self))
          /\ Touch(<<>>)

\* The calls on a ViewBuilder: new, add, build
BuilderNext(focus) ==
    \/ \E selection \in Selections :
          new_builder(selection)
          /\ Observe(focus, "new", 0, "-", TRUE, <<>>, <<>>)
          /\ Touch(<<>>)
    \/ \E id \in Ids :
          add_node(id)
          /\ Observe(focus, "add", id, "-", TRUE, add_logs(builder, id), <<>>)
          /\ Touch(<<>>)
    \/ \E r \in build(builder, Self) :
          build_view(r)
          /\ Observe(focus, "build", 0, "-", TRUE, <<>>, r.infos)
          /\ Touch(SubSeq(r.infos, Len(builder.view_info) + 1, Len(r.infos)))

\* The calls on the Vicinity layer: reset, populate, gossips, view
VicinityNext(focus) ==
    \/ vicinity_reset
          /\ Observe(focus, "layer_reset", 0, "-", TRUE, <<>>, <<>>)
          /\ Touch(<<>>)
    \/ \E identity \in Ids :
          populate(identity)
          /\ Observe(focus, "populate", identity, "-", TRUE, <<>>, view')
          /\ Touch(<<>>)
    \/ \E recipient \in Ids :
          \E pushed \in gossips_lists(Self, recipient) :
             gossips(recipient)
             /\ Observe(focus, "gossips", recipient, "-", TRUE, <<>>, pushed)
             /\ Touch(<<>>)
    \/ layer_view
          /\ Observe(focus, "view", 0, "-", TRUE,
                     vicinity_view(view, Self, builder).logged, <<>>)
          /\ Touch(<<>>)

\* The registry under every interleaving of its calls, watching the inserts
\* of Id 1
Next == RegistryNext(Focus({"or_insert"}, 1))

Spec == Init /\ [][Next]_vars

\* The same, watching and_modify on Id 1
NextModify == RegistryNext(Focus({"and_modify"}, 1))

SpecModify == Init /\ [][NextModify]_vars

\* The same, watching reset and what it does to Id 1
NextReset == RegistryNext(Focus({"reset"}, 1))

SpecReset == Init /\ [][NextReset]_vars

\* The registry alone, no call watched
NextRegistry == RegistryNext(Focus({}, 0))

SpecRegistry == Init /\ [][NextRegistry]_vars

\* The registry, watching the lookups of Id 1
NextAccess == RegistryNext(Focus({"peek", "peek_mut", "get", "get_mut"}, 1))

SpecAccess == Init /\ [][NextAccess]_vars

\* The registry, the Vicinity layer and the view builders together, no call
\* watched
NextLayer ==
    \/ RegistryNext(Focus({}, 0))
    \/ VicinityNext(Focus({}, 0))
    \/ BuilderNext(Focus({}, 0))

SpecLayer == Init /\ [][NextLayer]_vars

\* Scenario A: a registry of capacity MaxCap + 1 that is only filled, read
\* and counted
InitScenario ==
    /\ cap = MaxCap + 1
    /\ all = <<>>
    /\ quarantined = {}
    /\ not_reachable = {}
    /\ available = {}
    /\ pc = "idle"
    /\ view = <<>>
    /\ builder = NoBuilder
    /\ sel = NoSelection
    /\ recent = <<>>
    /\ last = Quiet

NextScenario ==
    \/ \E id \in Ids, address \in BOOLEAN :
          or_insert(id, address)
          /\ Observe(Focus({"node_count"}, 1), "or_insert", id, "-", TRUE, <<>>, <<>>)
          /\ Touch(IF contains(all, id) THEN <<>> ELSE <<id>>)
    \/ \E id \in Ids :
          get(id)
          /\ Observe(Focus({"node_count"}, 1), "get", id, "-", TRUE, <<>>, <<>>)
          /\ Touch(IF contains(all, id) THEN <<id>> ELSE <<>>)
    \/ count_nodes
          /\ Observe(Focus({"node_count"}, 1), "node_count", 0, "-", TRUE, <<>>,
                     node_count(Self))
          /\ Touch(<<>>)

SpecScenario == InitScenario /\ [][NextScenario]_vars

\* One selection: a registry of reachable Nodes, a target, a proximity of
\* every Id to the target and a max, then the selection that populate and
\* gossips make
InitSelect ==
    /\ cap = NumIds
    /\ \E S \in SUBSET Ids :
          /\ all = [i \in 1..Cardinality(S) |-> [id |-> SetToSeq(S)[i], address |-> TRUE]]
          /\ available = S
    /\ quarantined = {}
    /\ not_reachable = {}
    /\ pc = "idle"
    /\ view = <<>>
    /\ builder = NoBuilder
    /\ sel \in [to : Ids, prox : [Ids -> 0..MaxProx], max : 0..MaxSel,
                out : {<<>>}, done : {FALSE}]
    /\ recent = [i \in 1..Len(all) |-> all[i].id]
    /\ last = Quiet

select ==
    /\ ~sel.done
    /\ \E out \in select_closest_nodes(sel.prox, candidates(Self, sel.to), sel.max) :
          sel' = [sel EXCEPT !.out = out, !.done = TRUE]
    /\ UNCHANGED <<cap, all, quarantined, not_reachable, available, pc, view,
                   builder, recent, last>>

NextSelect == select

SpecSelect == InitSelect /\ [][NextSelect]_vars

\* The registry and the Vicinity layer serving view requests: the builder of
\* a request is filled by the layer's view only
NextRound ==
    \/ RegistryNext(Focus({}, 0))
    \/ VicinityNext(Focus({}, 0))
    \/ \E selection \in Selections :
          new_builder(selection)
          /\ Observe(Focus({}, 0), "new", 0, "-", TRUE, <<>>, <<>>)
          /\ Touch(<<>>)
    \/ \E r \in build(builder, Self) :
          build_view(r)
          /\ Observe(Focus({}, 0), "build", 0, "-", TRUE, <<>>, r.infos)
          /\ Touch(SubSeq(r.infos, Len(builder.view_info) + 1, Len(r.infos)))

SpecRound == Init /\ [][NextRound]_vars

\* View requests served by the Vicinity layer alone, over a registry of
\* reachable Nodes that gains Ids by or_insert and loses them by eviction and
\* by Forget; watching view, and what it logs for Id 1
NextView ==
    \/ \E id \in Ids :
          or_insert(id, TRUE)
          /\ Observe(Focus({"view"}, 1), "or_insert", id, "-", TRUE, <<>>, <<>>)
          /\ Touch(IF contains(all, id) THEN <<>> ELSE <<id>>)
    \/ insert_loop /\ UNCHANGED <<recent, last>>
    \/ \E id \in Ids :
          and_modify(id, "keep", "Forget")
          /\ Observe(Focus({"view"}, 1), "and_modify", id, "Forget", TRUE,
                     <<>>, <<>>)
          /\ Touch(IF contains(all, id) THEN <<id>> ELSE <<>>)
    \/ \E identity \in Ids :
          populate(identity)
          /\ Observe(Focus({"view"}, 1), "populate", identity, "-", TRUE,
                     <<>>, view')
          /\ Touch(<<>>)
    \/ \E selection \in Selections :
          new_builder(selection)
          /\ Observe(Focus({"view"}, 1), "new", 0, "-", TRUE, <<>>, <<>>)
          /\ Touch(<<>>)
    \/ layer_view
          /\ Observe(Focus({"view"}, 1), "view", 0, "-", TRUE,
                     vicinity_view(view, Self, builder).logged, <<>>)
          /\ Touch(<<>>)
    \/ \E r \in build(builder, Self) :
          build_view(r)
          /\ Observe(Focus({"view"}, 1), "build", 0, "-", TRUE, <<>>, r.infos)
          /\ Touch(SubSeq(r.infos, Len(builder.view_info) + 1, Len(r.infos)))

SpecView == Init /\ [][NextView]_vars

\* View builders of either selection that a layer adds tracked Nodes to, over
\* a registry that gains Ids by or_insert and loses them by eviction and by
\* Forget; watching add on Id 1
NextAdd ==
    \/ \E id \in Ids, address \in BOOLEAN :
          or_insert(id, address)
          /\ Observe(Focus({"add"}, 1), "or_insert", id, "-", TRUE, <<>>, <<>>)
          /\ Touch(IF contains(all, id) THEN <<>> ELSE <<id>>)
    \/ insert_loop /\ UNCHANGED <<recent, last>>
    \/ \E id \in Ids :
          and_modify(id, "keep", "Forget")
          /\ Observe(Focus({"add"}, 1), "and_modify", id, "Forget", TRUE,
                     <<>>, <<>>)
          /\ Touch(IF contains(all, id) THEN <<id>> ELSE <<>>)
    \/ BuilderNext(Focus({"add"}, 1))

SpecAdd == Init /\ [][NextAdd]_vars

\* A view builder from new to build, over a registry of reachable Nodes that
\* gains Ids by or_insert and loses them by eviction and by Forget; watching
\* build
NextBuilder ==
    \/ \E id \in Ids :
          or_insert(id, TRUE)
          /\ Observe(Focus({"build"}, 0), "or_insert", id, "-", TRUE, <<>>, <<>>)
          /\ Touch(IF contains(all, id) THEN <<>> ELSE <<id>>)
    \/ insert_loop /\ UNCHANGED <<recent, last>>
    \/ \E id \in Ids :
          and_modify(id, "keep", "Forget")
          /\ Observe(Focus({"build"}, 0), "and_modify", id, "Forget", TRUE, <<>>,
                     <<>>)
          /\ Touch(IF contains(all, id) THEN <<id>> ELSE <<>>)
    \/ new_builder("Any")
          /\ Observe(Focus({"build"}, 0), "new", 0, "-", TRUE, <<>>, <<>>)
          /\ Touch(<<>>)
    \/ \E id \in Ids :
          add_node(id)
          /\ Observe(Focus({"build"}, 0), "add", id, "-", TRUE,
                     add_logs(builder, id), <<>>)
          /\ Touch(<<>>)
    \/ \E info \in Ids :
          push_info(info)
          /\ Observe(Focus({"build"}, 0), "add_info", info, "-", TRUE, <<>>, <<>>)
          /\ Touch(<<>>)
    \/ \E r \in build(builder, Self) :
          build_view(r)
          /\ Observe(Focus({"build"}, 0), "build", 0, "-", TRUE, <<>>, r.infos)
          /\ Touch(SubSeq(r.infos, Len(builder.view_info) + 1, Len(r.infos)))

SpecBuilder == Init /\ [][NextBuilder]_vars

\* A crowded registry: the Ids 1..size inserted into a registry of capacity
\* Crowd + 1, every one reachable ("available"), or every third one
\* quarantined since and every third one without address ("mixed"); then
\* the calls on the Vicinity layer that need no view builder
CrowdNode(pattern, i) ==
    [id |-> i, address |-> ~(pattern = "mixed" /\ i % 3 = 2)]

InitCrowd ==
    /\ cap = Crowd + 1
    /\ \E size \in 0..(Crowd + 1), pattern \in {"available", "mixed"} :
          /\ all = [i \in 1..size |-> CrowdNode(pattern, i)]
          /\ quarantined = {i \in 1..size : pattern = "mixed" /\ i % 3 = 0}
          /\ not_reachable = {i \in 1..size : pattern = "mixed" /\ i % 3 = 2}
          /\ available = {i \in 1..size : pattern = "available" \/ i % 3 = 1}
    /\ pc = "idle"
    /\ view = <<>>
    /\ builder = NoBuilder
    /\ sel = NoSelection
    /\ recent = [i \in 1..Len(all) |-> all[i].id]
    /\ last = Quiet

NextCrowd ==
    \/ vicinity_reset
          /\ Observe(Focus({"populate", "gossips"}, 0), "layer_reset", 0, "-",
                     TRUE, <<>>, <<>>)
          /\ Touch(<<>>)
    \/ \E identity \in Ids :
          populate(identity)
          /\ Observe(Focus({"populate", "gossips"}, identity), "populate",
                     identity, "-", TRUE, <<>>, view')
          /\ Touch(<<>>)
    \/ \E recipient \in Ids :
          \E pushed \in gossips_lists(Self, recipient) :
             gossips(recipient)
             /\ Observe(Focus({"populate", "gossips"}, recipient), "gossips",
                        recipient, "-", TRUE, <<>>, pushed)
             /\ Touch(<<>>)

SpecCrowd == InitCrowd /\ [][NextCrowd]_vars

-----------------------------------------------------------------------------
\* Shorthands of the claims

Tracked == Keys(all)

Sets == available \cup not_reachable \cup quarantined

NodeOf(n, id) == lru_peek(n.all, id)

Lru == all[Len(all)].id

IdsOf(c) == [i \in 1..Len(c) |-> c[i].id]

Elems(s) == {s[i] : i \in 1..Len(s)}

\* the tracked available Ids other than id
OthersAvailable(id) == {k \in available : k # id /\ k \in Tracked}

NonePolicy(n) == [k \in Keys(n.all) |-> "None"]

Policies == [Tracked -> PolicyReports]

-----------------------------------------------------------------------------
\* C1: after any sequence of registry calls, available, not_reachable and
\* quarantined are pairwise disjoint and their union is the set of Ids the
\* cache holds.
C1_SetsPartitionTracked ==
    pc = "idle" =>
        /\ available \cap not_reachable = {}
        /\ available \cap quarantined = {}
        /\ not_reachable \cap quarantined = {}
        /\ Sets = Tracked

\* C2: every Id in available is tracked with an address, every Id in
\* not_reachable is tracked without one.
C2_SetsMatchAddress ==
    pc = "idle" =>
        /\ \A id \in available : id \in Tracked /\ NodeOf(Self, id).address
        /\ \A id \in not_reachable : id \in Tracked /\ ~NodeOf(Self, id).address

\* C3: a vacant insert into a registry that holds cap entries removes
\* exactly one entry, the least recently used one, whose Id is then in none
\* of the three sets; below capacity it removes none; and the cache never
\* holds more than cap entries.
C3_EvictsExactlyLru ==
    /\ Len(all) <= cap
    /\ pc = "idle" =>
         \A id \in Ids \ Tracked, address \in BOOLEAN :
            or_insert_pc(id, address) = "idle" =>
               LET n == or_insert_result(id, address)
               IN IF Len(all) = cap
                  THEN /\ Keys(n.all) = (Tracked \ {Lru}) \cup {id}
                       /\ Len(n.all) = cap
                       /\ Lru \notin n.available \cup n.not_reachable \cup n.quarantined
                       /\ [i \in 1..(cap - 1) |-> n.all[i + 1]]
                            = [i \in 1..(cap - 1) |-> all[i]]
                  ELSE /\ Keys(n.all) = Tracked \cup {id}
                       /\ Tail(n.all) = all
    /\ (last.op = "or_insert" /\ ~last.hit /\ pc = "idle") =>
         /\ last.removed <= 1
         /\ last.removed = 1 => Len(all) = cap
         /\ last.id \in Tracked /\ all[1].id = last.id

\* C3's case: an insert at capacity 2 has just evicted an entry
C3_Witness ==
    /\ pc = "idle" /\ cap = 2 /\ Len(all) = 2
    /\ last.op = "or_insert" /\ ~last.hit
    /\ last.removed = 1

\* C4: Quarantine (in modify or reset) puts the Id in quarantined and in
\* neither other set; LiftQuarantine on a quarantined Id takes it out of
\* quarantined and puts it in available when the Node then has an address,
\* in not_reachable otherwise; Forget removes the Id from the cache and
\* from the three sets.
C4_ReportTransitions ==
    pc = "idle" =>
      /\ \A id \in Tracked, f \in Mutators :
            LET q == modify(Self, id, f, "Quarantine")
                l == modify(Self, id, f, "LiftQuarantine")
                g == modify(Self, id, f, "Forget")
            IN /\ id \in q.quarantined
               /\ id \notin q.available \cup q.not_reachable
               /\ id \in quarantined =>
                    /\ id \notin l.quarantined
                    /\ IF NodeOf(l, id).address
                       THEN id \in l.available /\ id \notin l.not_reachable
                       ELSE id \in l.not_reachable /\ id \notin l.available
               /\ id \notin Keys(g.all)
               /\ id \notin g.available \cup g.not_reachable \cup g.quarantined
      /\ \A policy \in Policies :
            LET r == reset(Self, policy)
            IN \A id \in Tracked :
                 /\ policy[id] = "Quarantine" =>
                      /\ id \in r.quarantined
                      /\ id \notin r.available \cup r.not_reachable
                 /\ (policy[id] = "LiftQuarantine" /\ id \in quarantined) =>
                      /\ id \notin r.quarantined
                      /\ IF NodeOf(Self, id).address
                         THEN id \in r.available /\ id \notin r.not_reachable
                         ELSE id \in r.not_reachable /\ id \notin r.available
                 /\ policy[id] = "Forget" =>
                      /\ id \notin Keys(r.all)
                      /\ id \notin r.available \cup r.not_reachable \cup r.quarantined

\* C4's case: a quarantined Id whose Node lost its address has just been
\* given LiftQuarantine by and_modify and sits in not_reachable
C4_Witness ==
    /\ last.op = "and_modify" /\ last.hit
    /\ last.report = "LiftQuarantine" /\ last.pre = "Q"
    /\ last.id \in not_reachable /\ last.id \notin available \cup quarantined

\* C5: reset with a policy that reports None for every Node, once or twice
\* in a row, leaves the cache, its order and the three sets as they were,
\* also when an Id sits in a set its Node's address does not match.
C5_ResetNoneIsIdentity ==
    /\ pc = "idle" =>
         LET once == reset(Self, NonePolicy(Self))
             twice == reset(once, NonePolicy(once))
         IN once = Self /\ twice = Self
    /\ (last.op = "reset" /\ last.report = "None" /\ last.uniform) =>
         last.logged = <<>> /\ last.removed = 0

\* C5's case: reset with the all-None policy has just run on a registry
\* where an Id is in available although its Node has no address
C5_Witness ==
    /\ last.op = "reset" /\ last.report = "None" /\ last.uniform
    /\ Len(all) = 2
    /\ \E id \in available : id \in Tracked /\ ~NodeOf(Self, id).address

\* C7: entry(id) is Occupied exactly for the tracked Ids, the assert! of
\* VacantEntry::insert never fails, and or_insert / or_insert_with on a
\* tracked Id change nothing.
C7_EntryGuardsInsert ==
    /\ pc # "panicked"
    /\ pc = "idle" =>
         \A id \in Ids :
            /\ (entry(all, id) = "Occupied") <=> (id \in Tracked)
            /\ id \in Tracked =>
                 \A address \in BOOLEAN :
                    /\ or_insert_result(id, address) = Self
                    /\ or_insert_pc(id, address) = "idle"
    /\ (last.op = "or_insert" /\ last.hit) =>
         last.removed = 0 /\ last.id \in Tracked /\ pc = "idle"

\* C7's case: or_insert has just been called on a tracked Id of a full cache
C7_Witness ==
    /\ last.op = "or_insert" /\ last.hit
    /\ pc = "idle" /\ Len(all) = cap /\ cap = 2

\* C6: the selection of populate and gossips never holds the target's own
\* Id, holds at most min(max, number of candidates) Ids, each a candidate
\* and none twice, in non-decreasing proximity to the target, and leaves out
\* no candidate strictly closer to the target than one it returns,
\* whatever the shuffle did.
C6_SelectClosest ==
    sel.done =>
       LET out == sel.out
           chosen == {out[i] : i \in 1..Len(out)}
           given == available \ {sel.to}
       IN /\ sel.to \notin chosen
          /\ Len(out) <= Min(sel.max, Cardinality(available))
          /\ Len(out) = Min(sel.max, Cardinality(given))
          /\ chosen \subseteq given
          /\ Cardinality(chosen) = Len(out)
          /\ \A i, j \in 1..Len(out) : i < j => sel.prox[out[i]] <= sel.prox[out[j]]
          /\ \A c \in given \ chosen, r \in chosen : sel.prox[c] >= sel.prox[r]

\* C6's case: the target is itself available, max cut the list short, and a
\* candidate farther from the target than the returned one was left out
C6_Witness ==
    /\ sel.done /\ sel.to \in available
    /\ Len(sel.out) = 1 /\ Cardinality(available) = NumIds
    /\ \E c \in available \ {sel.to} : sel.prox[c] > sel.prox[sel.out[1]]

\* C8: a vacant insert puts the Id in available when the Node has an
\* address and in not_reachable otherwise, and in no other set; node_count
\* reports the sizes of the cache and of the three sets; with capacity 3,
\* inserting X (reachable), Y (unreachable), Z (reachable) in that order
\* gives all 3, available 2, not_reachable 1, quarantined 0, nothing evicted.
C8_InsertPlacement ==
    /\ pc = "idle" =>
         \A id \in Ids \ Tracked, address \in BOOLEAN :
            or_insert_pc(id, address) = "idle" =>
               LET n == or_insert_result(id, address)
               IN /\ address =>
                       id \in n.available /\ id \notin n.not_reachable \cup n.quarantined
                  /\ ~address =>
                       id \in n.not_reachable /\ id \notin n.available \cup n.quarantined
                  /\ node_count(n)[1] = Cardinality(Keys(n.all))
    /\ last.op = "node_count" =>
         last.ret = <<Cardinality(Tracked), Cardinality(quarantined),
                      Cardinality(not_reachable), Cardinality(available)>>
    /\ (last.op = "node_count" /\ cap = 3 /\ Len(all) = 3
          /\ recent = <<3, 2, 1>>
          /\ NodeOf(Self, 1).address /\ ~NodeOf(Self, 2).address
          /\ NodeOf(Self, 3).address) =>
         last.ret = <<3, 0, 1, 2>>

\* C8's case: X, Y, Z have been inserted in that order into a registry of
\* capacity 3 and node_count has just been called
C8_Witness ==
    /\ last.op = "node_count" /\ cap = 3
    /\ all = <<[id |-> 3, address |-> TRUE], [id |-> 2, address |-> FALSE],
               [id |-> 1, address |-> TRUE]>>
    /\ available = {1, 3} /\ not_reachable = {2} /\ quarantined = {}

\* C9 as stated: every lookup of a tracked Id, read-only or mutable, makes
\* its entry the most recently used one.
C9_EveryAccessPromotes ==
    (last.op \in {"peek", "peek_mut", "get", "get_mut"} /\ last.hit) =>
       all[1].id = last.id

\* C9: the cache holds its entries in the order of their last promotion, a
\* promotion being the vacant insert, get, get_mut, an occupied-entry modify
\* or the resolution of the Id by the build of a view builder, whatever Ids
\* it was given; peek, peek_mut and reset leave the order as it is; and the entry an at-capacity insert evicts is
\* the one whose last promotion is the oldest.
C9_PromotionOrder ==
    /\ recent = IdsOf(all)
    /\ (last.op \in {"get", "get_mut"} /\ last.hit) => all[1].id = last.id
    /\ pc = "idle" =>
         /\ \A id \in Tracked, f \in Mutators, report \in PolicyReports \ {"Forget"} :
               IdsOf(modify(Self, id, f, report).all) = promote_each(recent, <<id>>, 1)
         /\ \A added \in SUBSET Ids :
               \A r \in build([ViewBuilder_new("Any") EXCEPT !.view = added], Self) :
                  /\ IdsOf(r.nodes.all) = promote_each(recent, r.infos, 1)
                  /\ {r.infos[i] : i \in 1..Len(r.infos)} = added \cap Tracked
         /\ \A id \in Ids \ Tracked, address \in BOOLEAN :
               (Len(all) = cap /\ or_insert_pc(id, address) = "idle") =>
                  Keys(or_insert_result(id, address).all)
                    = (Tracked \ {recent[Len(recent)]}) \cup {id}

\* C9's case: peek has just found Id 1 in a full cache, and Id 1 is still
\* the least recently used entry
C9_Witness ==
    /\ last.op = "peek" /\ last.hit /\ last.id = 1
    /\ cap = 2 /\ Len(all) = 2 /\ Lru = 1

\* C10: an Id becomes tracked only in a vacant insert of it; a tracked Id
\* stops being tracked only in a modify or reset whose policy reports Forget
\* for it, or as the least recently used entry in a vacant insert at
\* capacity; no other step (lookup, Quarantine, LiftQuarantine, layer call,
\* view build) changes the set of tracked Ids.
C10_TrackedLifecycle ==
    [][LET came == Keys(all') \ Keys(all)
           went == Keys(all) \ Keys(all')
       IN /\ came # {} =>
               \E id \in Ids \ Tracked, address \in BOOLEAN :
                  /\ or_insert(id, address) \/ or_insert_with(id, address)
                  /\ came = {id}
          /\ went # {} =>
               \/ \E id \in Tracked, f \in Mutators :
                     and_modify(id, f, "Forget") /\ went = {id}
               \/ \E policy \in Policies :
                     /\ reset_nodes(policy)
                     /\ went = {k \in Tracked : policy[k] = "Forget"}
               \/ \E id \in Ids \ Tracked, address \in BOOLEAN :
                     /\ or_insert(id, address) \/ or_insert_with(id, address)
                     /\ Len(all) = cap
                     /\ went = {Lru}]_vars

\* C10's case: the cache is full, and the view of the layer and an open
\* view builder both hold an Id that was tracked and no longer is
C10_Witness ==
    /\ Len(all) = cap /\ cap > 1
    /\ \E i \in 1..Len(view) : view[i] \notin Tracked /\ view[i] \in builder.view

\* C11: populate with identity I leaves in the view exactly min(20, n) Ids,
\* n being the number of tracked available Ids other than I: each is in
\* available, none is I, none comes twice, and they are in non-decreasing
\* proximity to I; with 25 such peers the view has exactly 20 Ids.  What the
\* view held before plays no part, and the registry is unchanged.  (For up
\* to NumIds candidates the selection built front to back is the selection
\* worked out through the shuffle.)
C11_PopulateView ==
    [][last'.op = "populate" =>
            \A others \in {OthersAvailable(last'.id)} :
            LET I == last'.id
                n == Cardinality(others)
            IN /\ Len(view') = Min(20, n)
               /\ n = 25 => Len(view') = 20
               /\ Elems(view') \subseteq others
               /\ Cardinality(Elems(view')) = Len(view')
               /\ \A i, j \in 1..Len(view') :
                     i < j => Proximity(I, view'[i]) <= Proximity(I, view'[j])
               /\ \A c \in others \ Elems(view'), r \in Elems(view') :
                     Proximity(I, c) >= Proximity(I, r)
               /\ last'.ret = view'
               /\ UNCHANGED <<cap, all, quarantined, not_reachable, available, pc>>
               /\ \A max \in {0, 1, MaxSel, VICINITY_MAX_VIEW_SIZE} :
                     n <= NumIds =>
                        \A c \in {candidates(Self, I)} :
                           select_closest_nodes(ProximityTo(I), c, max)
                             = closest_lists(ProximityTo(I), c, 1..Len(c), max)]_vars

\* C11's case: 26 available peers, the identity one of them, and populate
\* has just left 20 Ids in the view
C11_Witness ==
    /\ last.op = "populate" /\ last.hit
    /\ Cardinality(available) = 26
    /\ Len(view) = 20

\* C12: build returns the infos given to add_info, in the order they were
\* given, followed by one info for each Id given to add that the registry
\* tracks when build runs; Ids no longer tracked are left out, and an Id
\* given to add more than once comes once.
C12_BuildResult ==
    [][/\ last'.op = "build" =>
            LET given == builder.view_info
                ret == last'.ret
                resolved == SubSeq(ret, Len(given) + 1, Len(ret))
            IN /\ builder.open /\ ~builder'.open
               /\ Len(ret) >= Len(given)
               /\ SubSeq(ret, 1, Len(given)) = given
               /\ Elems(resolved) = builder.view \cap Tracked
               /\ Cardinality(Elems(resolved)) = Len(resolved)
               /\ pc' = "idle"
       /\ \A info \in Ids :
            push_info(info) =>
               /\ builder'.view_info = Append(builder.view_info, info)
               /\ builder'.view = builder.view
       /\ \A id \in Ids :
            add_node(id) =>
               /\ builder'.view = builder.view \cup {id}
               /\ builder'.view_info = builder.view_info
               /\ add(builder', id) = builder']_vars

\* C12's case: build has just returned two different infos given to add_info
\* and, after them, the info of the one Id the registry still tracks
C12_Witness ==
    /\ last.op = "build" /\ Len(last.ret) = 3
    /\ last.ret[1] > last.ret[2]
    /\ Tracked = {last.ret[3]}
    /\ cap = 2

\* C13: an Id that is in quarantined is never selected by populate or
\* gossips, never contributed to a view builder by Vicinity's view and never
\* returned by build, whatever the registry did between populate, view and
\* build.
C13_QuarantinedExcluded ==
    [][/\ \A identity \in Ids :
            populate(identity) => Elems(view') \cap quarantined = {}
       /\ \A recipient \in Ids :
            \A pushed \in gossips_lists(Self, recipient) :
               Elems(pushed) \cap quarantined = {}
       /\ layer_view => (builder'.view \ builder.view) \cap quarantined = {}
       /\ \A r \in build(builder, Self) :
            build_view(r) => Elems(r.infos) \cap quarantined = {}]_vars

\* C14: a vacant insert always returns, whatever the capacity: its eviction
\* loop is never left spinning, and when it has returned the new Id is
\* tracked.
C14_InsertTerminates ==
    /\ pc # "insert_loop"
    /\ (last.op = "or_insert" /\ pc = "idle") => last.id \in Tracked

\* C15: when the policy reports None, modify follows the address the mutator
\* left: an Id of available that lost its address moves to not_reachable, an
\* Id of not_reachable that gained one moves to available, a quarantined Id
\* stays quarantined and enters neither other set, and with the address
\* presence unchanged the three sets are unchanged.
C15_NoneFollowsAddress ==
    pc = "idle" =>
        \A id \in Tracked, f \in Mutators :
            LET was == NodeOf(Self, id).address
                post == modify(Self, id, f, "None")
                now == NodeOf(post, id).address
            IN /\ now = mutate(NodeOf(Self, id), f).address
               /\ (id \in available /\ was /\ ~now) =>
                      /\ post.available = available \ {id}
                      /\ post.not_reachable = not_reachable \cup {id}
                      /\ post.quarantined = quarantined
               /\ (id \in not_reachable /\ ~was /\ now) =>
                      /\ post.not_reachable = not_reachable \ {id}
                      /\ post.available = available \cup {id}
                      /\ post.quarantined = quarantined
               /\ id \in quarantined =>
                      /\ post.quarantined = quarantined
                      /\ id \notin post.available \cup post.not_reachable
                      /\ post.available = available
                      /\ post.not_reachable = not_reachable
               /\ was = now =>
                      /\ post.available = available
                      /\ post.not_reachable = not_reachable
                      /\ post.quarantined = quarantined
               /\ Keys(post.all) = Tracked
               /\ post.logged = <<>>

\* A None report has just moved Id 1 from available to not_reachable
C15_Witness ==
    /\ last.op = "and_modify"
    /\ last.report = "None"
    /\ last.pre = "A"
    /\ Membership(1) = "N"
    /\ quarantined # {}

\* the number of events of kind what that logs holds for Id k
Events(logs, k, what) ==
    Cardinality({i \in 1..Len(logs) : logs[i] = <<k, what>>})

\* C16: reset calls the policy once on every tracked Node; afterwards an Id
\* is tracked exactly when it was tracked and not reported Forget, the
\* forgotten Ids are in no set, every Id reported Quarantine is in
\* quarantined only with one quarantine event appended to its log, and the
\* deferred removal takes no other Node out of the cache.
C16_ResetTransitions ==
    pc = "idle" =>
        \A policy \in Policies : \A post \in {reset(Self, policy)} :
            LET checks == policy_checks(Self)
                forgotten == {k \in Tracked : policy[k] = "Forget"}
            IN /\ Elems(checks) = Tracked
               /\ \A k \in Tracked :
                     Cardinality({i \in 1..Len(checks) : checks[i] = k}) = 1
               /\ Keys(post.all) = Tracked \ forgotten
               /\ forgotten \cap
                     (post.available \cup post.not_reachable
                         \cup post.quarantined) = {}
               /\ \A k \in Tracked :
                     /\ policy[k] = "Quarantine" =>
                           /\ k \in post.quarantined
                           /\ k \notin post.available \cup post.not_reachable
                           /\ Events(post.logged, k, "quarantine") = 1
                     /\ policy[k] = "LiftQuarantine" =>
                           Events(post.logged, k, "lift_quarantine") = 1
                     /\ policy[k] \in {"None", "Forget"} =>
                           \A e \in Elems(post.logged) : e[1] # k
                     /\ policy[k] # "Forget" =>
                           /\ contains(post.all, k)
                           /\ NodeOf(post, k) = NodeOf(Self, k)
               /\ Len(post.logged) =
                     Cardinality({k \in Tracked :
                         policy[k] \in {"Quarantine", "LiftQuarantine"}})
               /\ IdsOf(post.all) =
                     SelectSeq(IdsOf(all), LAMBDA k : k \notin forgotten)

\* One reset has just quarantined Id 1, which had no address, and forgotten
\* the other tracked Id
C16_Witness ==
    /\ last.op = "reset" /\ last.report = "mixed"
    /\ last.logged = <<<<1, "quarantine">>>>
    /\ last.removed = 1
    /\ Tracked = {1} /\ quarantined = {1}
    /\ not_reachable = {} /\ available = {}
    /\ ~NodeOf(Self, 1).address

\* the orders in which the Ids of S can be visited once each
Orders(S) ==
    {o \in [1..Cardinality(S) -> S] : \A i, j \in DOMAIN o : o[i] = o[j] => i = j}

\* OccupiedEntry::modify with a mutator that changes nothing, called on the
\* Ids of order one after the other, the policy reporting policy[id]
RECURSIVE modify_each(_, _, _, _)
modify_each(n, order, policy, i) ==
    IF i > Len(order)
    THEN n
    ELSE modify_each(modify(n, order[i], "keep", policy[order[i]]),
                     order, policy, i + 1)

\* the events of logs that went to the log of Node k
LogOf(logs, k) == SelectSeq(logs, LAMBDA e : e[1] = k)

\* C17: reset(policy) and modify with a no-op mutator, called once on every
\* tracked Id in any order under the same policy, end with the same tracked
\* Ids, the same three sets and the same events appended to each Node's log;
\* the order of the cache is all that may differ.
C17_ResetMatchesModify ==
    pc = "idle" =>
        \A policy \in Policies : \A byReset \in {reset(Self, policy)} :
            \A order \in Orders(Tracked) :
                \A byModify \in {modify_each(Self, order, policy, 1)} :
                    /\ Keys(byModify.all) = Keys(byReset.all)
                    /\ byModify.available = byReset.available
                    /\ byModify.not_reachable = byReset.not_reachable
                    /\ byModify.quarantined = byReset.quarantined
                    /\ \A k \in Tracked :
                          LogOf(byModify.logged, k) = LogOf(byReset.logged, k)
                    /\ \A k \in Keys(byReset.all) :
                          NodeOf(byModify, k) = NodeOf(byReset, k)

\* Two Ids are tracked, one of them quarantined and one sitting in both
\* available and not_reachable, and for some policy and order the two ways
\* leave the cache in different orders
C17_Witness ==
    /\ pc = "idle" /\ Len(all) = 2
    /\ quarantined # {} /\ available \cap not_reachable # {}
    /\ \E policy \in Policies, order \in Orders(Tracked) :
          /\ \E k \in quarantined : policy[k] = "LiftQuarantine"
          /\ \E k \in available : policy[k] = "Quarantine"
          /\ IdsOf(modify_each(Self, order, policy, 1).all)
                # IdsOf(reset(Self, policy).all)

\* C18: for a tracked recipient gossips pushes exactly min(10, n) Ids, n the
\* number of tracked available Ids other than the recipient: all of them
\* available, none the recipient, none twice, in non-decreasing proximity to
\* the recipient, no closer candidate left out; for an untracked recipient
\* it pushes nothing.  The registry and the stored view are left unchanged.
C18_GossipsPushed ==
    [][last'.op = "gossips" =>
          \A others \in {OthersAvailable(last'.id)} :
          LET R == last'.id
              n == Cardinality(others)
              pushed == last'.ret
          IN /\ last'.hit <=> R \in Tracked
             /\ R \in Tracked =>
                   /\ Len(pushed) = Min(VICINITY_MAX_GOSSIP_LENGTH, n)
                   /\ Len(pushed) = Min(10, n)
                   /\ Elems(pushed) \subseteq others
                   /\ Cardinality(Elems(pushed)) = Len(pushed)
                   /\ \A i, j \in 1..Len(pushed) :
                         i < j => Proximity(R, pushed[i]) <= Proximity(R, pushed[j])
                   /\ \A c \in others \ Elems(pushed),
                         r \in Elems(pushed) :
                         Proximity(R, c) >= Proximity(R, r)
             /\ R \notin Tracked => pushed = <<>>
             /\ UNCHANGED <<cap, all, quarantined, not_reachable, available,
                            pc, view>>]_vars

\* C18's case: 26 available peers, the recipient one of them, a view of 20
\* stored by populate, and gossips has just pushed 10 Ids
C18_Witness ==
    /\ last.op = "gossips" /\ last.hit
    /\ Cardinality(available) = 26
    /\ Len(last.ret) = 10
    /\ Len(view) = 20

\* C19: Vicinity.view gives the builder exactly the Ids of the stored view
\* that the registry tracks when it is called and passes over the others
\* without failing; the cache with its order, the three sets and the stored
\* view are as before, and no Node that was passed over gets anything logged.
C19_ViewContributes ==
    [][(layer_view /\ last'.op = "view") =>
          /\ builder'.view = builder.view \cup (Elems(view) \cap Tracked)
          /\ builder'.view_info = builder.view_info
          /\ builder'.selection = builder.selection /\ builder'.open
          /\ pc' = "idle"
          /\ UNCHANGED <<cap, all, quarantined, not_reachable, available, view>>
          /\ recent' = recent
          /\ 1 \notin Elems(view) \cap Tracked => last'.logged = <<>>]_vars

\* C19's case: view has just run with a stored Id that is no longer tracked
\* and one that is; the builder holds the tracked one alone
C19_Witness ==
    /\ last.op = "view" /\ builder.open
    /\ Len(view) = 2
    /\ \E id \in Elems(view) : id \notin Tracked /\ id \notin builder.view
    /\ builder.view = Elems(view) \cap Tracked
    /\ builder.view # {}

\* C20: add records the use of the topic on the Node's log exactly when the
\* builder's selection is Topic, once per call whether or not the Id is
\* pending already, and logs nothing under Any; the Id is pending afterwards
\* (the pending Ids are a set), the rest of the builder, the tracked Ids, the
\* cache order and the three sets are unchanged.
C20_AddLogsTopicUse ==
    [][last'.op = "add" =>
          /\ builder.selection = "Topic" => last'.logged = <<<<1, "use_of">>>>
          /\ builder.selection = "Any" => last'.logged = <<>>
          /\ (last'.logged # <<>>) <=> (builder.selection = "Topic")
          /\ (last'.pre = "pending") <=> (1 \in builder.view)
          /\ builder'.view = builder.view \cup {1}
          /\ Cardinality(builder'.view) =
                Cardinality(builder.view) + (IF last'.pre = "pending" THEN 0 ELSE 1)
          /\ builder'.view_info = builder.view_info
          /\ builder'.selection = builder.selection
          /\ UNCHANGED <<cap, all, quarantined, not_reachable, available, pc,
                         view>>
          /\ recent' = recent]_vars

\* C20's case: add has just been called under Topic on an Id that was
\* pending already, and logged the use of the topic again
C20_Witness ==
    /\ last.op = "add" /\ last.pre = "pending"
    /\ builder.selection = "Topic"
    /\ last.logged = <<<<1, "use_of">>>>
    /\ 1 \in builder.view /\ 1 \in Tracked

====
